---- MODULE Spec2Model ----
(***************************************************************************)
(* Token-level model of the paragraph corrector: the tokenizer and the     *)
(* joiners, the proper-noun matcher, the lock-recording spelling pass, the *)
(* proper-noun guardrail with the final clean-up of app.py, and the        *)
(* academic-context rewrite.                                               *)
(*                                                                         *)
(* A character is a one-character string and a text is a sequence of       *)
(* characters, so that every regular expression of the source is modelled  *)
(* by what it matches, character by character.                             *)
(***************************************************************************)
EXTENDS Integers, Sequences, FiniteSets, TLC

VARIABLES
    pc,         \* position of the running operation
    text,       \* the input text of the running operation
    tokens,     \* tokenizer check: _simple_tokens(text)
    retoks,     \* tokenizer check: _retok(text)
    joined,     \* <<_smart_join(tokens) of the guardrail, of the normalizer>>
    rejoined,   \* <<join(tokenize(joined[1])), join(tokenize(joined[2]))>>
    original_after_spell,   \* guardrail: the text the lock map was made for
    corrected,              \* guardrail: one candidate of the rewriter
    locked_positions,       \* guardrail: token index (from 0) -> canonical
    src_tok, tgt_tok,       \* guardrail: the two token lists
    i, j,                   \* guardrail: the two walk indices (from 0)
    out,                    \* guardrail: the tokens emitted so far
    guarded,                \* what enforce_locked_proper_nouns returned
    final,                  \* the candidate run_pipeline returns
    token,                  \* matcher: the word given to _closest_proper
    cutoff,                 \* matcher: the cutoff, in hundredths
    proper,                 \* matcher: the result, <<>> for None
    use_lexicon,            \* spelling pass: the use_lexicon argument
    norm, toks,           \* spelling pass: normalized text and its tokens
    idx,                    \* spelling pass: index of the next token (from 0)
    fixed,                  \* spelling pass: the tokens emitted so far
    locked_map,             \* spelling pass: token index -> canonical
    hits, alpha_tokens,     \* spelling pass: the two counters
    spell_corrected,        \* spelling pass: the returned text
    stats,                  \* spelling pass: the returned stats, <<>> before
    has_academic,           \* prefer_studying: an academic keyword was found
    has_hostel,             \* prefer_studying: a hostel clue was found
    studying,               \* prefer_studying: the returned text
    raw,                    \* correct_topk: the strings the rewriter returned
    topk,                   \* correct_topk: the argument k
    raw_idx,                \* correct_topk: index of the next string of raw (from 0)
    seen, outs,             \* correct_topk: the set and the list of its loop
    candidates,             \* run_pipeline: what correct_topk returned
    guarded_all,            \* run_pipeline: the candidates after the guardrail
    returned,               \* run_pipeline: the candidate list it returns
    given_name,             \* loader: the model_name argument, "" for None
    tokenizer_ok, model_ok, \* loader: the names whose tokenizer / model load
    model_name, tokenizer, model,  \* loader: the three attributes, "" for None
    try_idx,                \* loader: index of the next candidate (from 0)
    last_err,               \* loader: the name whose load failed last, "" for None
    raised                  \* loader: RuntimeError was raised

tokVars == <<text, tokens, retoks, joined, rejoined>>
guardVars == <<original_after_spell, corrected, locked_positions,
               src_tok, tgt_tok, i, j, out, guarded, final>>
matchVars == <<token, cutoff, proper>>
spellVars == <<use_lexicon, norm, toks, idx, fixed, locked_map, hits,
               alpha_tokens, spell_corrected, stats>>
academicVars == <<has_academic, has_hostel, studying>>
topkVars == <<raw, topk, raw_idx, seen, outs, candidates, guarded_all, returned>>
loaderVars == <<given_name, tokenizer_ok, model_ok, model_name, tokenizer, model,
                try_idx, last_err, raised>>
vars == <<pc, tokVars, guardVars, matchVars, spellVars, academicVars, topkVars,
          loaderVars>>

notTokVars == <<guardVars, matchVars, spellVars, academicVars, topkVars, loaderVars>>
notGuardVars == <<tokVars, matchVars, spellVars, academicVars, topkVars, loaderVars>>
notMatchVars == <<tokVars, guardVars, spellVars, academicVars, topkVars, loaderVars>>
notSpellVars == <<tokens, retoks, joined, rejoined, guardVars, matchVars,
                  academicVars, topkVars, loaderVars>>
notAcademicVars == <<tokens, retoks, joined, rejoined, guardVars, matchVars,
                     spellVars, topkVars, loaderVars>>
notTopkVars == <<tokVars, src_tok, tgt_tok, i, j, out, guarded, final, corrected,
                 matchVars, spellVars, academicVars, loaderVars>>
notLoaderVars == <<tokVars, guardVars, matchVars, spellVars, academicVars, topkVars>>

----------------------------------------------------------------------------
(* Bounds of the model *)

MaxTextLen == 4
MaxSrcToks == 2
MaxTgtToks == 3
MaxWords == 3
MaxPhrases == 4
MaxRaw == 3
MaxTopK == 3

----------------------------------------------------------------------------
(* Characters: Python's str predicates and the regex classes on ASCII *)

UpperLetters == <<"A","B","C","D","E","F","G","H","I","J","K","L","M",
                  "N","O","P","Q","R","S","T","U","V","W","X","Y","Z">>
LowerLetters == <<"a","b","c","d","e","f","g","h","i","j","k","l","m",
                  "n","o","p","q","r","s","t","u","v","w","x","y","z">>
Uppers == {UpperLetters[k] : k \in DOMAIN UpperLetters}
Lowers == {LowerLetters[k] : k \in DOMAIN LowerLetters}
Digits == {"0","1","2","3","4","5","6","7","8","9"}
Spaces == {" "}
SentencePunct == {",", ".", ";", ":", "!", "?"}

IsUpper(c)    == c \in Uppers
IsLower(c)    == c \in Lowers
IsLetter(c)   == c \in Uppers \cup Lowers
IsDigit(c)    == c \in Digits
IsAlnum(c)    == IsLetter(c) \/ IsDigit(c)
IsSpace(c)    == c \in Spaces
IsWordChar(c) == IsAlnum(c) \/ c = "_"

LowerOf == [c \in Uppers |->
              LowerLetters[CHOOSE k \in DOMAIN UpperLetters : UpperLetters[k] = c]]
UpperOf == [c \in Lowers |->
              UpperLetters[CHOOSE k \in DOMAIN LowerLetters : LowerLetters[k] = c]]

lower_char(c) == IF c \in Uppers THEN LowerOf[c] ELSE c
upper_char(c) == IF c \in Lowers THEN UpperOf[c] ELSE c

lower(s) == [k \in DOMAIN s |-> lower_char(s[k])]
capitalize(s) == [k \in DOMAIN s |-> IF k = 1 THEN upper_char(s[k]) ELSE lower_char(s[k])]
isalpha(s) == s # <<>> /\ \A k \in DOMAIN s : IsLetter(s[k])

Last(s) == s[Len(s)]

RECURSIVE Concat(_)
Concat(ts) == IF ts = <<>> THEN <<>> ELSE Head(ts) \o Concat(Tail(ts))

(* re.match(r"[A-Za-z]", tok) and re.match(r"[A-Za-z0-9]", tok) *)
is_word(tok)      == tok # <<>> /\ IsLetter(tok[1])
starts_alnum(tok) == tok # <<>> /\ IsAlnum(tok[1])

----------------------------------------------------------------------------
(* The tokenizer: re.findall(r"[A-Za-z][A-Za-z\-']*|\d+|[^\w\s]", t) *)

RECURSIVE word_end(_, _)
word_end(s, p) ==
    IF p < Len(s) /\ (IsLetter(s[p + 1]) \/ s[p + 1] \in {"-", "'"})
    THEN word_end(s, p + 1) ELSE p

RECURSIVE digit_end(_, _)
digit_end(s, p) ==
    IF p < Len(s) /\ IsDigit(s[p + 1]) THEN digit_end(s, p + 1) ELSE p

RECURSIVE findall_tokens(_, _)
findall_tokens(s, p) ==
    IF p > Len(s) THEN <<>>
    ELSE IF IsLetter(s[p])
         THEN LET e == word_end(s, p)
              IN  <<SubSeq(s, p, e)>> \o findall_tokens(s, e + 1)
    ELSE IF IsDigit(s[p])
         THEN LET e == digit_end(s, p)
              IN  <<SubSeq(s, p, e)>> \o findall_tokens(s, e + 1)
    ELSE IF ~IsWordChar(s[p]) /\ ~IsSpace(s[p])
         THEN <<(<<s[p]>>)>> \o findall_tokens(s, p + 1)
    ELSE findall_tokens(s, p + 1)

simple_tokens(t) == findall_tokens(t, 1)
retok(t) == findall_tokens(t, 1)

----------------------------------------------------------------------------
(* The joiners *)

RECURSIVE space_run_end(_, _)
space_run_end(s, p) ==
    IF p < Len(s) /\ IsSpace(s[p + 1]) THEN space_run_end(s, p + 1) ELSE p

(* re.sub(r"\s+([,.;:!?])", r"\1", s) and re.sub(r"\s+,", ",", s): the      *)
(* whitespace before one of the marks is removed                           *)
RECURSIVE sub_space_before_from(_, _, _)
sub_space_before_from(s, p, marks) ==
    IF p > Len(s) THEN <<>>
    ELSE IF IsSpace(s[p])
         THEN LET e == space_run_end(s, p)
              IN  IF e < Len(s) /\ s[e + 1] \in marks
                  THEN <<s[e + 1]>> \o sub_space_before_from(s, e + 2, marks)
                  ELSE SubSeq(s, p, e) \o sub_space_before_from(s, e + 1, marks)
    ELSE <<s[p]>> \o sub_space_before_from(s, p + 1, marks)

sub_space_before_punct(s) == sub_space_before_from(s, 1, SentencePunct)
sub_space_before_comma(s) == sub_space_before_from(s, 1, {","})

(* re.sub(r",([A-Za-z])", r", \1", t) *)
RECURSIVE sub_comma_letter_from(_, _)
sub_comma_letter_from(t, p) ==
    IF p > Len(t) THEN <<>>
    ELSE IF t[p] = "," /\ p < Len(t) /\ IsLetter(t[p + 1])
         THEN <<",", " ", t[p + 1]>> \o sub_comma_letter_from(t, p + 2)
    ELSE <<t[p]>> \o sub_comma_letter_from(t, p + 1)

sub_comma_letter(t) == sub_comma_letter_from(t, 1)

(* \b before the word character at p, and after the word character at e *)
word_boundary_before(s, p) == p = 1 \/ ~IsWordChar(s[p - 1])
word_boundary_after(s, e)  == e = Len(s) \/ ~IsWordChar(s[e + 1])

(* The literal lit at p, re.IGNORECASE (lit is given in lower case) *)
literal_at(s, p, lit) ==
    /\ p + Len(lit) - 1 <= Len(s)
    /\ \A k \in DOMAIN lit : lower_char(s[p + k - 1]) = lit[k]

(* re.sub(r"\b(?:lit1|lit2|..)\b", repl, s, flags=re.IGNORECASE) for literals *)
(* that begin and end with a word character, tried in the order given      *)
RECURSIVE sub_phrases_from(_, _, _, _)
sub_phrases_from(s, p, lits, repl) ==
    IF p > Len(s) THEN <<>>
    ELSE LET fits == {n \in DOMAIN lits :
                        /\ literal_at(s, p, lits[n])
                        /\ word_boundary_before(s, p)
                        /\ word_boundary_after(s, p + Len(lits[n]) - 1)}
         IN  IF fits # {}
             THEN LET n == CHOOSE m \in fits : \A o \in fits : m <= o
                  IN  repl \o sub_phrases_from(s, p + Len(lits[n]), lits, repl)
             ELSE <<s[p]>> \o sub_phrases_from(s, p + 1, lits, repl)

sub_phrases(s, lits, repl) == sub_phrases_from(s, 1, lits, repl)

(* str.strip() *)
RECURSIVE lstrip(_)
lstrip(s) == IF s # <<>> /\ IsSpace(s[1]) THEN lstrip(Tail(s)) ELSE s
RECURSIVE rstrip(_)
rstrip(s) == IF s # <<>> /\ IsSpace(Last(s)) THEN rstrip(SubSeq(s, 1, Len(s) - 1)) ELSE s
strip(s) == rstrip(lstrip(s))

(* The loop of _smart_join in grammar_corrector.py *)
RECURSIVE smart_join_loop(_, _, _)
smart_join_loop(ts, k, acc) ==
    IF k > Len(ts) THEN acc
    ELSE LET tok == ts[k]
         IN  smart_join_loop(ts, k + 1,
                IF starts_alnum(tok)
                THEN IF acc # <<>> /\ IsAlnum(Last(acc))
                     THEN acc \o <<" ">> \o tok
                     ELSE IF acc = <<>> THEN acc \o tok ELSE acc \o <<" ">> \o tok
                ELSE acc \o tok)

(* A joiner that decides the space by the previous token, not the last character *)
RECURSIVE smart_join_prev_token_loop(_, _, _)
smart_join_prev_token_loop(ts, k, acc) ==
    IF k > Len(ts) THEN acc
    ELSE LET tok == ts[k]
         IN  smart_join_prev_token_loop(ts, k + 1,
                IF starts_alnum(tok) /\ k > 1 /\ starts_alnum(ts[k - 1])
                THEN acc \o <<" ">> \o tok
                ELSE acc \o tok)

smart_join_prev_token(ts) ==
    strip(sub_space_before_punct(smart_join_prev_token_loop(ts, 1, <<>>)))

smart_join(ts) == strip(sub_space_before_punct(smart_join_loop(ts, 1, <<>>)))

(* The loop of _smart_join in spell_checker.py *)
RECURSIVE spell_smart_join_loop(_, _, _)
spell_smart_join_loop(ts, k, acc) ==
    IF k > Len(ts) THEN acc
    ELSE LET t == ts[k]
         IN  spell_smart_join_loop(ts, k + 1,
                IF starts_alnum(t)
                THEN IF acc # <<>> /\ (IsAlnum(Last(acc)) \/ Last(acc) \in {")", "]", "\"", "'"})
                     THEN acc \o <<" ">> \o t
                     ELSE IF acc = <<>> THEN acc \o t ELSE acc \o <<" ">> \o t
                ELSE acc \o t)

spell_smart_join(ts) ==
    strip(sub_space_before_punct(spell_smart_join_loop(ts, 1, <<>>)))

----------------------------------------------------------------------------
(* Tokenizer and joiner on every short text *)

TokAlphabet == {"a", "B", "1", "-", ",", " ", "_"}

Texts(alphabet, n) == UNION {[1..k -> alphabet] : k \in 0..n}

GuardIdle ==
    /\ original_after_spell = <<>>
    /\ corrected = <<>>
    /\ locked_positions = <<>>
    /\ src_tok = <<>>
    /\ tgt_tok = <<>>
    /\ i = 0
    /\ j = 0
    /\ out = <<>>
    /\ guarded = <<>>
    /\ final = <<>>

TokIdle ==
    /\ text = <<>>
    /\ tokens = <<>>
    /\ retoks = <<>>
    /\ joined = <<>>
    /\ rejoined = <<>>

MatchIdle ==
    /\ token = <<>>
    /\ cutoff = 0
    /\ proper = <<>>

AcademicIdle ==
    /\ has_academic = FALSE
    /\ has_hostel = FALSE
    /\ studying = <<>>

TopkIdle ==
    /\ raw = <<>>
    /\ topk = 0
    /\ raw_idx = 0
    /\ seen = {}
    /\ outs = <<>>
    /\ candidates = <<>>
    /\ guarded_all = <<>>
    /\ returned = <<>>

LoaderIdle ==
    /\ given_name = ""
    /\ tokenizer_ok = {}
    /\ model_ok = {}
    /\ model_name = ""
    /\ tokenizer = ""
    /\ model = ""
    /\ try_idx = 0
    /\ last_err = ""
    /\ raised = FALSE

SpellIdle ==
    /\ use_lexicon = TRUE
    /\ norm = <<>>
    /\ toks = <<>>
    /\ idx = 0
    /\ fixed = <<>>
    /\ locked_map = <<>>
    /\ hits = 0
    /\ alpha_tokens = 0
    /\ spell_corrected = <<>>
    /\ stats = <<>>

TokInit ==
    /\ pc = "tok_start"
    /\ GuardIdle
    /\ MatchIdle
    /\ SpellIdle
    /\ AcademicIdle
    /\ TopkIdle
    /\ LoaderIdle
    /\ text \in Texts(TokAlphabet, MaxTextLen)
    /\ tokens = <<>>
    /\ retoks = <<>>
    /\ joined = <<>>
    /\ rejoined = <<>>

Tokenize ==
    /\ pc = "tok_start"
    /\ tokens' = simple_tokens(text)
    /\ retoks' = retok(text)
    /\ pc' = "tokenized"
    /\ UNCHANGED <<text, joined, rejoined>>
    /\ UNCHANGED notTokVars

Join ==
    /\ pc = "tokenized"
    /\ joined' = <<smart_join(tokens), spell_smart_join(retoks)>>
    /\ pc' = "joined"
    /\ UNCHANGED <<text, tokens, retoks, rejoined>>
    /\ UNCHANGED notTokVars

Rejoin ==
    /\ pc = "joined"
    /\ rejoined' = <<smart_join(simple_tokens(joined[1])),
                     spell_smart_join(retok(joined[2]))>>
    /\ pc' = "rejoined"
    /\ UNCHANGED <<text, tokens, retoks, joined>>
    /\ UNCHANGED notTokVars

TokNext == Tokenize \/ Join \/ Rejoin

SpecTok == TokInit /\ [][TokNext]_vars

----------------------------------------------------------------------------
(* C6: joining is idempotent: for the tokens T of any text,                *)
(* join(tokenize(join(T))) = join(T), for the joiner of the guardrail and  *)
(* for the joiner of the normalizer.                                       *)
IdempotentJoining ==
    pc = "rejoined" => rejoined = joined

(* A text whose re-tokenization differs from its tokens (a hyphen that     *)
(* joins the word before it), joined twice.                                *)
IdempotentJoiningWitness ==
    /\ pc = "rejoined"
    /\ Len(tokens) >= 3
    /\ simple_tokens(joined[1]) # tokens
    /\ rejoined = joined

(* C8: the tokens of a text, concatenated, are the text without its        *)
(* whitespace: no other character is dropped; every token is a word run, a *)
(* digit run or one other character; the empty text has no tokens.         *)
no_whitespace(s) == SelectSeq(s, LAMBDA c : ~IsSpace(c))

TokenizerCoverage ==
    pc # "tok_start" =>
        /\ Concat(tokens) = no_whitespace(text)
        /\ Concat(retoks) = no_whitespace(text)
        /\ \A k \in DOMAIN tokens :
              \/ is_word(tokens[k])
              \/ \A p \in DOMAIN tokens[k] : IsDigit(tokens[k][p])
              \/ Len(tokens[k]) = 1
        /\ (text = <<>> => tokens = <<>>)

----------------------------------------------------------------------------
(* The guardrail GrammarCorrector.enforce_locked_proper_nouns and the last *)
(* two lines of run_pipeline                                               *)

W_in  == <<"i", "n">>
W_goa == <<"g", "o", "a">>
W_Goa == <<"G", "o", "a">>

SrcPieces == {W_in, W_Goa, <<".">>}
TgtPieces == {W_in, W_goa, W_Goa, <<".">>, <<"-">>}
Canonicals == {W_Goa}

(* " ".join(pieces) *)
RECURSIVE space_join(_)
space_join(ps) ==
    IF ps = <<>> THEN <<>>
    ELSE IF Len(ps) = 1 THEN ps[1]
    ELSE ps[1] \o <<" ">> \o space_join(Tail(ps))

(* The second pass of the guardrail: adjacent duplicate word removal *)
RECURSIVE dedup_loop_case_sensitive(_, _, _)
dedup_loop_case_sensitive(ts, k, dedup) ==
    IF k > Len(ts) THEN dedup
    ELSE LET tok == ts[k]
         IN  dedup_loop_case_sensitive(ts, k + 1,
                IF dedup # <<>> /\ is_word(tok) /\ is_word(Last(dedup))
                   /\ tok = Last(dedup)
                THEN dedup
                ELSE Append(dedup, tok))

RECURSIVE dedup_loop(_, _, _)
dedup_loop(ts, k, dedup) ==
    IF k > Len(ts) THEN dedup
    ELSE LET tok == ts[k]
         IN  dedup_loop(ts, k + 1,
                IF dedup # <<>> /\ is_word(tok) /\ is_word(Last(dedup))
                   /\ lower(tok) = lower(Last(dedup))
                THEN dedup
                ELSE Append(dedup, tok))

(* _dedup_adjacent_words_simple of app.py *)
RECURSIVE app_dedup_loop(_, _, _)
app_dedup_loop(ts, k, acc) ==
    IF k > Len(ts) THEN acc
    ELSE LET tok == ts[k]
         IN  app_dedup_loop(ts, k + 1,
                IF acc # <<>> /\ isalpha(tok) /\ isalpha(Last(acc))
                   /\ lower(tok) = lower(Last(acc))
                THEN acc
                ELSE Append(acc, tok))

RECURSIVE app_join_loop(_, _, _)
app_join_loop(ts, k, s) ==
    IF k > Len(ts) THEN s
    ELSE LET tok == ts[k]
         IN  app_join_loop(ts, k + 1,
                IF starts_alnum(tok)
                THEN IF s # <<>> /\ IsAlnum(Last(s))
                     THEN s \o <<" ">> \o tok
                     ELSE s \o tok
                ELSE s \o tok)

dedup_adjacent_words_simple(t) ==
    strip(sub_space_before_punct(
        app_join_loop(app_dedup_loop(findall_tokens(t, 1), 1, <<>>), 1, <<>>)))

(* _final_touchups *)
final_touchups(t) == sub_comma_letter(t)

PieceLists(pieces, n) == UNION {[1..k -> pieces] : k \in 0..n}

LockMaps(n) ==
    UNION {[keys -> Canonicals] : keys \in SUBSET (0..(n - 1))}

GuardInit ==
    /\ pc = "guard_start"
    /\ \E sp \in PieceLists(SrcPieces, MaxSrcToks) :
          /\ original_after_spell = space_join(sp)
          /\ locked_positions \in LockMaps(Len(sp))
    /\ \E tp \in PieceLists(TgtPieces, MaxTgtToks) : corrected = space_join(tp)
    /\ src_tok = <<>>
    /\ tgt_tok = <<>>
    /\ i = 0
    /\ j = 0
    /\ out = <<>>
    /\ guarded = <<>>
    /\ final = <<>>
    /\ TokIdle
    /\ MatchIdle
    /\ SpellIdle
    /\ AcademicIdle
    /\ TopkIdle
    /\ LoaderIdle

(* if not locked_positions: return corrected *)
GuardReturnUnlocked ==
    /\ pc = "guard_start"
    /\ DOMAIN locked_positions = {}
    /\ guarded' = corrected
    /\ pc' = "guard_done"
    /\ UNCHANGED <<original_after_spell, corrected, locked_positions,
                   src_tok, tgt_tok, i, j, out, final>>
    /\ UNCHANGED notGuardVars

GuardTokenize ==
    /\ pc = "guard_start"
    /\ DOMAIN locked_positions # {}
    /\ src_tok' = simple_tokens(original_after_spell)
    /\ tgt_tok' = simple_tokens(corrected)
    /\ i' = 0
    /\ j' = 0
    /\ out' = <<>>
    /\ pc' = "walk"
    /\ UNCHANGED <<original_after_spell, corrected, locked_positions, guarded, final>>
    /\ UNCHANGED notGuardVars

walk_continues == i < Len(src_tok) /\ j < Len(tgt_tok)

walk_overwrites ==
    /\ is_word(src_tok[i + 1])
    /\ i \in DOMAIN locked_positions
    /\ is_word(tgt_tok[j + 1])

(* A walk that keeps the source index when it overwrites *)
walk_next_i_stalled == IF walk_overwrites THEN i ELSE i + 1

walk_next_i == i + 1

WalkOverwrite ==
    /\ pc = "walk"
    /\ walk_continues
    /\ walk_overwrites
    /\ out' = Append(out, locked_positions[i])
    /\ i' = walk_next_i
    /\ j' = j + 1
    /\ UNCHANGED <<pc, original_after_spell, corrected, locked_positions,
                   src_tok, tgt_tok, guarded, final>>
    /\ UNCHANGED notGuardVars

WalkCopy ==
    /\ pc = "walk"
    /\ walk_continues
    /\ ~walk_overwrites
    /\ out' = Append(out, tgt_tok[j + 1])
    /\ i' = i + 1
    /\ j' = j + 1
    /\ UNCHANGED <<pc, original_after_spell, corrected, locked_positions,
                   src_tok, tgt_tok, guarded, final>>
    /\ UNCHANGED notGuardVars

(* A walk that ends with the rest of the source tokens *)
extended_out_from_source == out \o SubSeq(src_tok, i + 1, Len(src_tok))

(* out.extend(tgt_tok[j:]), the join, the duplicate removal and the return *)
extended_out == out \o SubSeq(tgt_tok, j + 1, Len(tgt_tok))

GuardFinish ==
    /\ pc = "walk"
    /\ ~walk_continues
    /\ out' = extended_out
    /\ guarded' = smart_join(dedup_loop(simple_tokens(smart_join(extended_out)), 1, <<>>))
    /\ pc' = "guard_done"
    /\ UNCHANGED <<original_after_spell, corrected, locked_positions,
                   src_tok, tgt_tok, i, j, final>>
    /\ UNCHANGED notGuardVars

(* guarded = [_dedup_adjacent_words_simple(g) ...]; [_final_touchups(g) ...] *)
FinalCleanup ==
    /\ pc = "guard_done"
    /\ final' = final_touchups(dedup_adjacent_words_simple(guarded))
    /\ pc' = "final"
    /\ UNCHANGED <<original_after_spell, corrected, locked_positions,
                   src_tok, tgt_tok, i, j, out, guarded>>
    /\ UNCHANGED notGuardVars

GuardNext ==
    \/ GuardReturnUnlocked
    \/ GuardTokenize
    \/ WalkOverwrite
    \/ WalkCopy
    \/ GuardFinish
    \/ FinalCleanup

SpecGuard == GuardInit /\ [][GuardNext]_vars

----------------------------------------------------------------------------
(* The proper-noun lexicon and the matcher _closest_proper; the model      *)
(* keeps some entries of each of the three lists                           *)

INDIAN_STATES == {<<"K","a","r","n","a","t","a","k","a">>, W_Goa,
                  <<"D","e","l","h","i">>}
POPULAR_CITIES == {<<"J","o","d","h","p","u","r">>, <<"D","e","l","h","i">>,
                   <<"P","u","n","e">>}
COMMON_FIRST_NAMES == {<<"S","i","d","d","h","a","r","t","h">>, <<"R","a","j">>}

Lexicon(names) == [k \in {lower(n) : n \in names} |-> CHOOSE n \in names : lower(n) = k]
LEX_STATE == Lexicon(INDIAN_STATES)
LEX_CITY  == Lexicon(POPULAR_CITIES)
LEX_NAME  == Lexicon(COMMON_FIRST_NAMES)
ALL_LEX   == Lexicon(INDIAN_STATES \cup POPULAR_CITIES \cup COMMON_FIRST_NAMES)

(* max(0.96, cutoff), in hundredths *)
PersonMinCutoff == 96
person_cutoff_relaxed(c) == c
person_cutoff(c) == IF c > PersonMinCutoff THEN c ELSE PersonMinCutoff

(* difflib.SequenceMatcher: the longest matching block of a[alo..ahi] and  *)
(* b[blo..bhi], the earliest in a and then the earliest in b               *)
RECURSIVE run_len(_, _, _, _, _, _)
run_len(a, b, p, q, ahi, bhi) ==
    IF p <= ahi /\ q <= bhi /\ a[p] = b[q]
    THEN 1 + run_len(a, b, p + 1, q + 1, ahi, bhi) ELSE 0

find_longest_match(a, b, alo, ahi, blo, bhi) ==
    LET starts == (alo..ahi) \X (blo..bhi)
        size(st) == run_len(a, b, st[1], st[2], ahi, bhi)
        best == CHOOSE st \in starts :
                    \A o \in starts :
                        \/ size(o) < size(st)
                        \/ /\ size(o) = size(st)
                           /\ \/ st[1] < o[1]
                              \/ st[1] = o[1] /\ st[2] <= o[2]
    IN  <<best[1], best[2], size(best)>>

(* The sum of the sizes of get_matching_blocks() *)
RECURSIVE matching_size(_, _, _, _, _, _)
matching_size(a, b, alo, ahi, blo, bhi) ==
    IF alo > ahi \/ blo > bhi THEN 0
    ELSE LET m == find_longest_match(a, b, alo, ahi, blo, bhi)
         IN  IF m[3] = 0 THEN 0
             ELSE m[3]
                  + matching_size(a, b, alo, m[1] - 1, blo, m[2] - 1)
                  + matching_size(a, b, m[1] + m[3], ahi, m[2] + m[3], bhi)

(* ratio() = 2.0 * matches / (len(a) + len(b)), kept as <<2 * matches, len(a) + len(b)>> *)
ratio(a, b) == <<2 * matching_size(a, b, 1, Len(a), 1, Len(b)), Len(a) + Len(b)>>

(* real_quick_ratio() = 2.0 * min(la, lb) / (la + lb), an upper bound of   *)
(* ratio() that get_close_matches tests first                              *)
real_quick_ratio(a, b) ==
    <<2 * (IF Len(a) < Len(b) THEN Len(a) ELSE Len(b)), Len(a) + Len(b)>>

ratio_at_least(r, c) == IF r[2] = 0 THEN TRUE ELSE 100 * r[1] >= c * r[2]
ratio_less(r1, r2) == r1[1] * r2[2] < r2[1] * r1[2]

(* Python's order on str, for the lower-case keys of the lexicon *)
char_rank(c) == IF c \in Lowers THEN CHOOSE k \in DOMAIN LowerLetters : LowerLetters[k] = c
                ELSE 0
RECURSIVE str_less(_, _)
str_less(a, b) ==
    IF b = <<>> THEN FALSE
    ELSE IF a = <<>> THEN TRUE
    ELSE IF a[1] = b[1] THEN str_less(Tail(a), Tail(b))
    ELSE char_rank(a[1]) < char_rank(b[1])

(* difflib.get_close_matches(word, possibilities, n=1, cutoff): the set of *)
(* the at most one key returned                                            *)
get_close_matches(word, possibilities, c) ==
    LET scored == {x \in possibilities :
                      /\ ratio_at_least(real_quick_ratio(x, word), c)
                      /\ ratio_at_least(ratio(x, word), c)}
    IN  {x \in scored :
            \A y \in scored \ {x} :
                \/ ratio_less(ratio(y, word), ratio(x, word))
                \/ ~ratio_less(ratio(x, word), ratio(y, word)) /\ str_less(y, x)}

tag_of(key) ==
    IF key \in DOMAIN LEX_STATE THEN "state"
    ELSE IF key \in DOMAIN LEX_CITY THEN "city" ELSE "person"

closest_proper(tok, c) ==
    LET low == lower(tok)
    IN  IF low \in DOMAIN ALL_LEX THEN <<ALL_LEX[low], tag_of(low)>>
        ELSE LET match == get_close_matches(low, DOMAIN ALL_LEX, c)
             IN  IF match # {}
                 THEN LET m == CHOOSE x \in match : TRUE
                      IN  IF tag_of(m) = "person"
                             /\ get_close_matches(low, {m}, person_cutoff(c)) = {}
                          THEN <<>>
                          ELSE <<ALL_LEX[m], tag_of(m)>>
                 ELSE <<>>

(* The words tried: every key, capitalized or not, and every key with one  *)
(* letter missing                                                          *)
drop_at(w, p) == SubSeq(w, 1, p - 1) \o SubSeq(w, p + 1, Len(w))
MatchWords ==
    DOMAIN ALL_LEX
    \cup {ALL_LEX[k] : k \in DOMAIN ALL_LEX}
    \cup UNION {{drop_at(k, p) : p \in DOMAIN k} : k \in DOMAIN ALL_LEX}
Cutoffs == {80, 94, 96, 99}

MatchInit ==
    /\ pc = "match_start"
    /\ token \in MatchWords \ {<<>>}
    /\ cutoff \in Cutoffs
    /\ proper = <<>>
    /\ TokIdle
    /\ GuardIdle
    /\ SpellIdle
    /\ AcademicIdle
    /\ TopkIdle
    /\ LoaderIdle

ClosestProper ==
    /\ pc = "match_start"
    /\ proper' = closest_proper(token, cutoff)
    /\ pc' = "match_done"
    /\ UNCHANGED <<token, cutoff>>
    /\ UNCHANGED notMatchVars

MatchNext == ClosestProper

SpecMatch == MatchInit /\ [][MatchNext]_vars

----------------------------------------------------------------------------
(* Claims about the guardrail *)

locked_keys == DOMAIN locked_positions
SrcTokens == simple_tokens(original_after_spell)
TgtTokens == simple_tokens(corrected)

(* The lock map is not empty, its keys are word-token indices of the       *)
(* locked text, and the rewritten text has a word token at each of them.   *)
LocksOnWords ==
    /\ locked_keys # {}
    /\ \A k \in locked_keys :
          /\ k < Len(SrcTokens) /\ is_word(SrcTokens[k + 1])
          /\ k < Len(TgtTokens) /\ is_word(TgtTokens[k + 1])

(* The rewriter kept every token before a locked index in its place. *)
NoShiftBeforeLock ==
    \A k \in locked_keys : \A p \in 1..k :
        /\ p <= Len(SrcTokens) /\ p <= Len(TgtTokens)
        /\ lower(TgtTokens[p]) = lower(SrcTokens[p])

(* The rewritten tokens with the token at each locked index replaced by    *)
(* the canonical string.                                                   *)
Replaced ==
    [p \in 1..Len(TgtTokens) |->
        IF (p - 1) \in locked_keys THEN locked_positions[p - 1] ELSE TgtTokens[p]]

(* C1 as stated: under the two conditions above the guardrail returns the  *)
(* join of the rewritten tokens with the locked ones replaced, every other *)
(* token kept verbatim.                                                    *)
LockFidelityVerbatim ==
    (pc = "guard_done" /\ LocksOnWords /\ NoShiftBeforeLock)
        => guarded = smart_join(Replaced)

(* C1, amended: under the same conditions the guardrail returns that join  *)
(* after the removal of adjacent word tokens equal ignoring case.          *)
LockFidelity ==
    (pc = "guard_done" /\ LocksOnWords)
        => guarded = smart_join(dedup_loop(simple_tokens(smart_join(Replaced)), 1, <<>>))

(* The canonical case is restored at a locked index and a trailing         *)
(* addition of the rewriter is kept: "in Goa" locked at 1, rewritten as    *)
(* "in goa in", comes back as "in Goa in".                                 *)
LockFidelityWitness ==
    /\ pc = "guard_done"
    /\ LocksOnWords
    /\ NoShiftBeforeLock
    /\ SrcTokens = <<W_in, W_Goa>>
    /\ locked_keys = {1}
    /\ TgtTokens = <<W_in, W_goa, W_in>>
    /\ out = <<W_in, W_Goa, W_in>>
    /\ guarded = space_join(<<W_in, W_Goa, W_in>>)

no_adjacent_duplicates(ts) ==
    \A k \in 1..(Len(ts) - 1) :
        ~(is_word(ts[k]) /\ is_word(ts[k + 1]) /\ lower(ts[k]) = lower(ts[k + 1]))

(* C3 as stated: whatever the lock map, the empty one included, the tokens *)
(* of the returned string hold no two adjacent word tokens equal ignoring  *)
(* case.                                                                   *)
AdjacentDedupAnyLockMap ==
    pc = "guard_done" => no_adjacent_duplicates(simple_tokens(guarded))

(* C3, amended: with a non-empty lock map the tokens of the returned       *)
(* string hold no two adjacent word tokens equal ignoring case.            *)
AdjacentDedup ==
    (pc = "guard_done" /\ locked_keys # {})
        => no_adjacent_duplicates(simple_tokens(guarded))

(* A rewritten text with a repeated word comes back without the repeat. *)
AdjacentDedupWitness ==
    /\ pc = "guard_done"
    /\ locked_keys # {}
    /\ ~no_adjacent_duplicates(TgtTokens)
    /\ Len(simple_tokens(guarded)) < Len(TgtTokens)
    /\ no_adjacent_duplicates(simple_tokens(guarded))

(* C7: in a candidate returned by run_pipeline every sentence-level        *)
(* punctuation mark has no space before it and exactly one space between   *)
(* it and a word or number that follows it.                                *)
PunctuationSpacing ==
    pc = "final" =>
        \A p \in DOMAIN final :
            final[p] \in SentencePunct =>
                /\ (p > 1 => ~IsSpace(final[p - 1]))
                /\ \A q \in (p + 1)..Len(final) :
                      (/\ IsAlnum(final[q])
                       /\ \A r \in (p + 1)..(q - 1) : IsSpace(final[r]))
                          => q = p + 2

----------------------------------------------------------------------------
(* Claims about the proper-noun matcher *)

similarity(key) == ratio(key, lower(token))

(* The single most similar key; of two keys equally similar, the greater   *)
(* in string order, which is the one get_close_matches returns.            *)
MostSimilarKey ==
    CHOOSE k \in DOMAIN ALL_LEX :
        \A o \in DOMAIN ALL_LEX \ {k} :
            \/ ratio_less(similarity(o), similarity(k))
            \/ ~ratio_less(similarity(k), similarity(o)) /\ str_less(o, k)

is_person(key) == key \notin DOMAIN LEX_STATE /\ key \notin DOMAIN LEX_CITY

(* C4: the matcher returns (canonical, category) exactly when the          *)
(* lower-cased word is a key, whatever the cutoff, or the most similar key *)
(* has similarity >= cutoff and, when it is a person name, similarity >=   *)
(* max(0.96, cutoff); it returns none otherwise.                           *)
ProperMatcherResult ==
    pc = "match_done" =>
        LET low  == lower(token)
            best == MostSimilarKey
            sim  == similarity(best)
            accepted ==
                /\ 100 * sim[1] >= cutoff * sim[2]
                /\ is_person(best) =>
                      /\ 100 * sim[1] >= 96 * sim[2]
                      /\ 100 * sim[1] >= cutoff * sim[2]
        IN  IF low \in DOMAIN ALL_LEX
            THEN proper = <<ALL_LEX[low], tag_of(low)>>
            ELSE IF accepted
                 THEN proper = <<ALL_LEX[best], tag_of(best)>>
                 ELSE proper = <<>>

(* A word whose similarity to a person name reaches the cutoff, as that of *)
(* "karnatak" to a state does, and which is rejected all the same.         *)
ProperMatcherWitness ==
    /\ pc = "match_done"
    /\ lower(token) \notin DOMAIN ALL_LEX
    /\ cutoff = 94
    /\ is_person(MostSimilarKey)
    /\ 100 * similarity(MostSimilarKey)[1] >= cutoff * similarity(MostSimilarKey)[2]
    /\ proper = <<>>
    /\ closest_proper(<<"k","a","r","n","a","t","a","k">>, cutoff)
          = <<ALL_LEX[<<"k","a","r","n","a","t","a","k","a">>], "state">>

----------------------------------------------------------------------------
(* The spelling pass SpellCorrector.correct_spelling_with_stats            *)

W_i    == <<"i">>
W_am   == <<"a", "m">>
W_im   == <<"i", "m">>
W_u    == <<"u">>
W_you  == <<"y", "o", "u">>
W_the  == <<"t", "h", "e">>
W_teh  == <<"t", "e", "h">>
W_Teh  == <<"T", "e", "h">>
W_xq   == <<"x", "q">>
W_from == <<"f", "r", "o", "m">>
W_kanataka == <<"k", "a", "n", "a", "t", "a", "k", "a">>

(* Some entries of the abbreviation table *)
ABBREV ==
    (W_im :> <<"i", " ", "a", "m">>) @@ (W_u :> W_you)
    @@ (<<"b", "4">> :> <<"b", "e", "f", "o", "r", "e">>)
    @@ (<<"2", "d", "a", "y">> :> <<"t", "o", "d", "a", "y">>)
    @@ (<<"g", "r", "8">> :> <<"g", "r", "e", "a", "t">>)
    @@ (<<"4", "u">> :> <<"f", "o", "r", " ", "y", "o", "u">>)
    @@ (<<"t", "h", "i", "k">> :> <<"f", "i", "n", "e">>)
    @@ (<<"h">> :> <<"y", "e", "s">>)
    @@ (<<"t", "h", "i", "k", " ", "h">> :> <<"f", "i", "n", "e">>)

abbrev_get(t) == IF t \in DOMAIN ABBREV THEN ABBREV[t] ELSE t

normalize_tokens(txt) ==
    LET ts == retok(lower(txt))
    IN  spell_smart_join([k \in DOMAIN ts |->
            IF is_word(ts[k]) THEN abbrev_get(ts[k]) ELSE ts[k]])

(* The dictionary of the SpellChecker: the words it knows and the          *)
(* correction it suggests for a word it does not know, <<>> for None       *)
DictWords == {W_i, W_am, W_in, W_the, W_from, W_you}
spell_knows(w) == w \in DictWords
spell_correction(w) == IF w = W_teh THEN W_the ELSE <<>>

(* _light_post_edits, first substitution: "I" or "i" at a word boundary,   *)
(* whitespace, "am", whitespace, and a group of capitalized words          *)
(* [A-Z][a-z]+ each one whitespace character apart, ending at a word       *)
(* boundary; "from" is put before the group.                               *)
RECURSIVE lower_run_end(_, _)
lower_run_end(s, p) ==
    IF p < Len(s) /\ IsLower(s[p + 1]) THEN lower_run_end(s, p + 1) ELSE p

(* [A-Z][a-z]+ at p: the index of its last character, 0 when it does not match *)
cap_word_end(s, p) ==
    IF p + 1 <= Len(s) /\ IsUpper(s[p]) /\ IsLower(s[p + 1])
    THEN lower_run_end(s, p + 1) ELSE 0

(* The further capitalized words after the one that ends at e: the end of  *)
(* the longest repetition that stops at a word boundary, 0 for none        *)
RECURSIVE cap_words_end(_, _)
cap_words_end(s, e) ==
    LET more == IF e + 2 <= Len(s) /\ IsSpace(s[e + 1])
                THEN cap_word_end(s, e + 2) ELSE 0
        deeper == IF more > 0 THEN cap_words_end(s, more) ELSE 0
    IN  IF deeper > 0 THEN deeper
        ELSE IF word_boundary_after(s, e) THEN e ELSE 0

(* The match that starts at p: <<start of group 2, end of the match>>,     *)
(* <<0, 0>> when there is none                                             *)
i_am_match(s, p) ==
    IF ~(s[p] \in {"I", "i"} /\ word_boundary_before(s, p)
         /\ p < Len(s) /\ IsSpace(s[p + 1]))
    THEN <<0, 0>>
    ELSE LET e1 == space_run_end(s, p + 1)
         IN  IF ~(e1 + 3 <= Len(s) /\ s[e1 + 1] = "a" /\ s[e1 + 2] = "m"
                  /\ IsSpace(s[e1 + 3]))
             THEN <<0, 0>>
             ELSE LET e2 == space_run_end(s, e1 + 3)
                      c  == IF e2 < Len(s) THEN cap_word_end(s, e2 + 1) ELSE 0
                      e  == IF c > 0 THEN cap_words_end(s, c) ELSE 0
                  IN  IF e > 0 THEN <<e2 + 1, e>> ELSE <<0, 0>>

RECURSIVE sub_i_am_from(_, _)
sub_i_am_from(s, p) ==
    IF p > Len(s) THEN <<>>
    ELSE LET m == i_am_match(s, p)
         IN  IF m[2] > 0
             THEN <<s[p], " ", "a", "m", " ", "f", "r", "o", "m", " ">>
                  \o SubSeq(s, m[1], m[2]) \o sub_i_am_from(s, m[2] + 1)
             ELSE <<s[p]>> \o sub_i_am_from(s, p + 1)

light_post_edits(txt) ==
    sub_phrases(
        sub_comma_letter(sub_space_before_comma(sub_i_am_from(txt, 1))),
        <<(<<"h", "o", "m", "e", " ", "l", "o", "t">>)>>,
        <<"h", "o", "m", "e", " ", "a", " ", "l", "o", "t">>)

(* lexicon_cutoff: float = 0.94, in hundredths *)
DefaultCutoff == 94

SpellPieces == {W_i, W_am, W_im, W_goa, W_kanataka, W_Teh, W_xq, <<",">>}

SpellInit ==
    /\ pc = "spell_start"
    /\ \E ps \in PieceLists(SpellPieces, MaxWords) : text = space_join(ps)
    /\ use_lexicon \in BOOLEAN
    /\ norm = <<>>
    /\ toks = <<>>
    /\ idx = 0
    /\ fixed = <<>>
    /\ locked_map = <<>>
    /\ hits = 0
    /\ alpha_tokens = 0
    /\ spell_corrected = <<>>
    /\ stats = <<>>
    /\ tokens = <<>>
    /\ retoks = <<>>
    /\ joined = <<>>
    /\ rejoined = <<>>
    /\ GuardIdle
    /\ MatchIdle
    /\ AcademicIdle
    /\ TopkIdle
    /\ LoaderIdle

(* norm = self.normalize_tokens(text); toks = _retok(norm) *)
SpellNormalize ==
    /\ pc = "spell_start"
    /\ norm' = normalize_tokens(text)
    /\ toks' = retok(normalize_tokens(text))
    /\ pc' = "spell_loop"
    /\ UNCHANGED <<text, use_lexicon, idx, fixed, locked_map, hits, alpha_tokens,
                   spell_corrected, stats>>
    /\ UNCHANGED notSpellVars

current_tok == toks[idx + 1]
spell_looping == pc = "spell_loop" /\ idx < Len(toks)
(* A pass that consults the lexicon whatever use_lexicon says *)
lexicon_match_always == closest_proper(current_tok, DefaultCutoff)

lexicon_match == IF use_lexicon THEN closest_proper(current_tok, DefaultCutoff) ELSE <<>>

(* hits that miss the count *)
hits_after_lock_forgotten == hits
hits_after_lock == hits + 1

(* if not re.match(r"[A-Za-z]", t): fixed.append(t); continue *)
SpellPassThrough ==
    /\ spell_looping
    /\ ~is_word(current_tok)
    /\ fixed' = Append(fixed, current_tok)
    /\ idx' = idx + 1
    /\ UNCHANGED <<pc, text, use_lexicon, norm, toks, locked_map, hits,
                   alpha_tokens, spell_corrected, stats>>
    /\ UNCHANGED notSpellVars

(* The lexicon matches: emit the canonical form and lock the index *)
SpellLockProper ==
    /\ spell_looping
    /\ is_word(current_tok)
    /\ lexicon_match # <<>>
    /\ alpha_tokens' = alpha_tokens + 1
    /\ fixed' = Append(fixed, lexicon_match[1])
    /\ locked_map' = (idx :> lexicon_match[1]) @@ locked_map
    /\ hits' = hits_after_lock
    /\ idx' = idx + 1
    /\ UNCHANGED <<pc, text, use_lexicon, norm, toks, spell_corrected, stats>>
    /\ UNCHANGED notSpellVars

dictionary_fixes == ~spell_knows(lower(current_tok)) /\ isalpha(current_tok)

dictionary_fix ==
    LET cand == spell_correction(lower(current_tok))
    IN  IF cand # <<>> /\ IsUpper(current_tok[1]) THEN capitalize(cand)
        ELSE IF cand # <<>> THEN cand ELSE current_tok

(* The fallback to the dictionary for a word it does not know *)
SpellDictionaryFix ==
    /\ spell_looping
    /\ is_word(current_tok)
    /\ lexicon_match = <<>>
    /\ dictionary_fixes
    /\ alpha_tokens' = alpha_tokens + 1
    /\ fixed' = Append(fixed, dictionary_fix)
    /\ idx' = idx + 1
    /\ UNCHANGED <<pc, text, use_lexicon, norm, toks, locked_map, hits,
                   spell_corrected, stats>>
    /\ UNCHANGED notSpellVars

(* else: fixed.append(t) *)
SpellKeep ==
    /\ spell_looping
    /\ is_word(current_tok)
    /\ lexicon_match = <<>>
    /\ ~dictionary_fixes
    /\ alpha_tokens' = alpha_tokens + 1
    /\ fixed' = Append(fixed, current_tok)
    /\ idx' = idx + 1
    /\ UNCHANGED <<pc, text, use_lexicon, norm, toks, locked_map, hits,
                   spell_corrected, stats>>
    /\ UNCHANGED notSpellVars

(* out = _light_post_edits(_smart_join(fixed)); return out, stats *)
SpellReturn ==
    /\ pc = "spell_loop"
    /\ idx = Len(toks)
    /\ spell_corrected' = light_post_edits(spell_smart_join(fixed))
    /\ stats' = [lexicon_hits |-> hits, alpha_tokens |-> alpha_tokens,
                 locked_positions |-> locked_map]
    /\ pc' = "spell_done"
    /\ UNCHANGED <<text, use_lexicon, norm, toks, idx, fixed, locked_map, hits,
                   alpha_tokens>>
    /\ UNCHANGED notSpellVars

SpellNext ==
    \/ SpellNormalize
    \/ SpellPassThrough
    \/ SpellLockProper
    \/ SpellDictionaryFix
    \/ SpellKeep
    \/ SpellReturn

SpecSpell == SpellInit /\ [][SpellNext]_vars

----------------------------------------------------------------------------
(* Claims about the spelling pass                                          *)

InputTokens == retok(text)
CorrectedTokens == retok(spell_corrected)
word_positions(ts) == {k \in DOMAIN ts : is_word(ts[k])}
lexicon_positions(ts) ==
    {k \in word_positions(ts) : closest_proper(ts[k], DefaultCutoff) # <<>>}

(* C2: every key k of the returned locked_positions is an index into the   *)
(* tokens of the returned text (indices count from 0), the token at k is a *)
(* word token, and it is exactly locked_positions[k].                      *)
LockMapPositional ==
    pc = "spell_done" =>
        \A k \in DOMAIN stats.locked_positions :
            /\ k + 1 <= Len(CorrectedTokens)
            /\ is_word(CorrectedTokens[k + 1])
            /\ CorrectedTokens[k + 1] = stats.locked_positions[k]

(* C5 as stated: with the lexicon in use, alpha_tokens is the number of    *)
(* word tokens of the input text, lexicon_hits the number of those that    *)
(* match the lexicon, and lexicon_hits the size of locked_positions.       *)
StatsAccountingInput ==
    (pc = "spell_done" /\ use_lexicon) =>
        /\ stats.alpha_tokens = Cardinality(word_positions(InputTokens))
        /\ stats.lexicon_hits = Cardinality(lexicon_positions(InputTokens))
        /\ stats.lexicon_hits = Cardinality(DOMAIN stats.locked_positions)

(* C5: the counts are those of the tokens of the normalized text, the      *)
(* input lowercased and its abbreviations expanded: alpha_tokens is the    *)
(* number of its word tokens, lexicon_hits the number of those that match  *)
(* the lexicon when the lexicon is in use and 0 when it is not, and        *)
(* lexicon_hits is the size of locked_positions.                           *)
StatsAccounting ==
    pc = "spell_done" =>
        LET nts == retok(normalize_tokens(text))
        IN  /\ stats.alpha_tokens = Cardinality(word_positions(nts))
            /\ stats.lexicon_hits =
                   IF use_lexicon THEN Cardinality(lexicon_positions(nts)) ELSE 0
            /\ stats.lexicon_hits = Cardinality(DOMAIN stats.locked_positions)

(* Three input tokens, one of them the abbreviation "im", two of them      *)
(* lexicon matches: four word tokens are counted and two hits.             *)
StatsAccountingWitness ==
    /\ pc = "spell_done"
    /\ use_lexicon
    /\ Len(InputTokens) = 3
    /\ \E k \in DOMAIN InputTokens : InputTokens[k] = W_im
    /\ stats.alpha_tokens = 4
    /\ stats.lexicon_hits = 2
    /\ Cardinality(DOMAIN stats.locked_positions) = 2

(* The input has no abbreviation, so that the k-th token examined is the   *)
(* k-th token of the input                                                 *)
NoAbbreviation ==
    \A k \in word_positions(InputTokens) : lower(InputTokens[k]) \notin DOMAIN ABBREV

(* The input token at k goes to the dictionary and the dictionary does not *)
(* know it                                                                 *)
falls_to_dictionary(k) ==
    /\ is_word(InputTokens[k])
    /\ isalpha(InputTokens[k])
    /\ ~(use_lexicon /\ closest_proper(InputTokens[k], DefaultCutoff) # <<>>)
    /\ ~spell_knows(lower(InputTokens[k]))

(* C9: a word token of the input that is no lexicon match and that the     *)
(* dictionary does not know is replaced by the suggestion, capitalized     *)
(* when the input token starts with an uppercase letter, and is left as it *)
(* is when the dictionary has no suggestion.                               *)
CapitalizationPreserved ==
    (pc \in {"spell_loop", "spell_done"} /\ NoAbbreviation) =>
        \A k \in DOMAIN fixed :
            falls_to_dictionary(k) =>
                LET t    == InputTokens[k]
                    cand == spell_correction(lower(t))
                IN  fixed[k] = IF cand = <<>> THEN t
                               ELSE IF IsUpper(t[1]) THEN capitalize(cand)
                               ELSE cand

----------------------------------------------------------------------------
(* The academic-context rule prefer_studying of utils/academic_rules.py    *)

ACADEMIC_KEYWORDS == <<
    <<"c", "o", "l", "l", "e", "g", "e">>,
    <<"u", "n", "i", "v", "e", "r", "s", "i", "t", "y">>,
    <<"s", "c", "h", "o", "o", "l">>,
    <<"i", "n", "s", "t", "i", "t", "u", "t", "e">>,
    <<"c", "a", "m", "p", "u", "s">>,
    <<"d", "e", "g", "r", "e", "e">>,
    <<"b", "t", "e", "c", "h">>,
    <<"b", ".", "t", "e", "c", "h">>,
    <<"m", "t", "e", "c", "h">>,
    <<"m", ".", "t", "e", "c", "h">>,
    <<"b", "s", "c">>,
    <<"m", "s", "c">>,
    <<"p", "h", "d">>,
    <<"s", "e", "m", "e", "s", "t", "e", "r">>>>

HOSTEL_CLUES == <<
    <<"h", "o", "s", "t", "e", "l">>,
    <<"d", "o", "r", "m">>,
    <<"d", "o", "r", "m", "i", "t", "o", "r", "y">>,
    <<"p", "g">>,
    <<"p", "a", "y", "i", "n", "g", " ", "g", "u", "e", "s", "t">>,
    <<"s", "t", "a", "y", " ", "a", "t">>,
    <<"s", "t", "a", "y", "i", "n", "g", " ", "a", "t">>,
    <<"r", "o", "o", "m">>,
    <<"f", "l", "a", "t">>,
    <<"a", "p", "a", "r", "t", "m", "e", "n", "t">>,
    <<"r", "e", "n", "t">>>>

(* k in s, for strings *)
contains(s, k) ==
    \E p \in 1..(Len(s) - Len(k) + 1) : SubSeq(s, p, p + Len(k) - 1) = k

any_in(s, keys) == \E n \in DOMAIN keys : contains(s, keys[n])

S_studying_in == <<"s", "t", "u", "d", "y", "i", "n", "g", " ", "i", "n">>
S_studying_at == <<"s", "t", "u", "d", "y", "i", "n", "g", " ", "a", "t">>

(* The four substitutions, in the order of the code *)
rewrite_stay(t) ==
    LET t1 == sub_phrases(t, <<<<"i", " ", "a", "m", " ", "s", "t", "a", "y", "i", "n", "g", " ", "i", "n">>,
                               <<"i", " ", "a", "m", " ", "s", "t", "a", "y", " ", "i", "n">>>>,
                          <<"i", " ", "a", "m", " ", "s", "t", "u", "d", "y", "i", "n", "g", " ", "i", "n">>)
        t2 == sub_phrases(t1, <<<<"s", "t", "a", "y", "i", "n", "g", " ", "i", "n">>, <<"s", "t", "a", "y", " ", "i", "n">>>>, S_studying_in)
        t3 == sub_phrases(t2, <<<<"i", " ", "a", "m", " ", "s", "t", "a", "y", "i", "n", "g", " ", "a", "t">>,
                                <<"i", " ", "a", "m", " ", "s", "t", "a", "y", " ", "a", "t">>>>,
                          <<"i", " ", "a", "m", " ", "s", "t", "u", "d", "y", "i", "n", "g", " ", "a", "t">>)
    IN  sub_phrases(t3, <<<<"s", "t", "a", "y", "i", "n", "g", " ", "a", "t">>, <<"s", "t", "a", "y", " ", "a", "t">>>>, S_studying_at)

P_I_am       == <<"I", " ", "a", "m">>
P_staying_in == <<"s", "t", "a", "y", "i", "n", "g", " ", "i", "n">>
P_stay_in    == <<"s", "t", "a", "y", " ", "i", "n">>
P_stay_at    == <<"s", "t", "a", "y", " ", "a", "t">>
P_college    == <<"c", "o", "l", "l", "e", "g", "e">>
P_hostel     == <<"m", "y", " ", "h", "o", "s", "t", "e", "l", " ", "n", "e", "a", "r">>
P_parents    == <<"p", "a", "r", "e", "n", "t", "s">>

AcademicPieces ==
    {P_I_am, P_staying_in, P_stay_in, P_stay_at, P_college, P_hostel, P_parents}

AcademicInit ==
    /\ pc = "academic_start"
    /\ \E ps \in PieceLists(AcademicPieces, MaxPhrases) : text = space_join(ps)
    /\ AcademicIdle
    /\ tokens = <<>>
    /\ retoks = <<>>
    /\ joined = <<>>
    /\ rejoined = <<>>
    /\ GuardIdle
    /\ MatchIdle
    /\ SpellIdle
    /\ TopkIdle
    /\ LoaderIdle

(* low = t.lower(); has_academic = any(..); has_hostel = any(..) *)
AcademicScan ==
    /\ pc = "academic_start"
    /\ has_academic' = any_in(lower(text), ACADEMIC_KEYWORDS)
    /\ has_hostel' = any_in(lower(text), HOSTEL_CLUES)
    /\ pc' = "academic_scanned"
    /\ UNCHANGED <<text, studying>>
    /\ UNCHANGED notAcademicVars

(* if has_academic and not has_hostel: the substitutions; return t *)
AcademicRewrite ==
    /\ pc = "academic_scanned"
    /\ has_academic /\ ~has_hostel
    /\ studying' = rewrite_stay(text)
    /\ pc' = "academic_done"
    /\ UNCHANGED <<text, has_academic, has_hostel>>
    /\ UNCHANGED notAcademicVars

(* return t, untouched *)
AcademicKeep ==
    /\ pc = "academic_scanned"
    /\ ~(has_academic /\ ~has_hostel)
    /\ studying' = text
    /\ pc' = "academic_done"
    /\ UNCHANGED <<text, has_academic, has_hostel>>
    /\ UNCHANGED notAcademicVars

AcademicNext ==
    \/ AcademicScan
    \/ AcademicRewrite
    \/ AcademicKeep

SpecAcademic == AcademicInit /\ [][AcademicNext]_vars

----------------------------------------------------------------------------
(* Claims about the academic-context rule                                  *)

(* The phrase k as a word of s: k in s, any case, between word boundaries  *)
occurs_as_word(s, k) ==
    \E p \in DOMAIN s :
        /\ literal_at(s, p, k)
        /\ word_boundary_before(s, p)
        /\ word_boundary_after(s, p + Len(k) - 1)

hostel_clue_word(s) == \E n \in DOMAIN HOSTEL_CLUES : occurs_as_word(s, HOSTEL_CLUES[n])

(* Every "staying in" and "stay in" of s made "studying in" *)
studying_in(s) == sub_phrases(s, <<<<"s", "t", "a", "y", "i", "n", "g", " ", "i", "n">>, <<"s", "t", "a", "y", " ", "i", "n">>>>, S_studying_in)

(* C10: when the text contains an academic keyword and no hostel clue      *)
(* occurs in it as a word, prefer_studying returns the text with every     *)
(* "stay in" and "staying in" made "studying in" (letter case aside);      *)
(* when a hostel clue word is present or no academic keyword is, it        *)
(* returns the text unchanged.                                             *)
AcademicRewriteRule ==
    pc = "academic_done" =>
        IF any_in(lower(text), ACADEMIC_KEYWORDS) /\ ~hostel_clue_word(text)
        THEN lower(studying) = lower(studying_in(text))
        ELSE studying = text

----------------------------------------------------------------------------
(* enforce_locked_proper_nouns as a function of its three arguments, and   *)
(* the candidate list of correct_topk and run_pipeline                     *)

RECURSIVE walk_loop(_, _, _, _, _, _)
walk_loop(src, tgt, lm, wi, wj, acc) ==
    IF ~(wi < Len(src) /\ wj < Len(tgt))
    THEN acc \o SubSeq(tgt, wj + 1, Len(tgt))
    ELSE IF is_word(src[wi + 1]) /\ wi \in DOMAIN lm /\ is_word(tgt[wj + 1])
         THEN walk_loop(src, tgt, lm, wi + 1, wj + 1, Append(acc, lm[wi]))
         ELSE walk_loop(src, tgt, lm, wi + 1, wj + 1, Append(acc, tgt[wj + 1]))

enforce_locked_proper_nouns(orig, corr, lm) ==
    IF DOMAIN lm = {} THEN corr
    ELSE LET walked == walk_loop(simple_tokens(orig), simple_tokens(corr), lm,
                                 0, 0, <<>>)
         IN  smart_join(dedup_loop(simple_tokens(smart_join(walked)), 1, <<>>))

(* outs[:k] *)
take(xs, n) == SubSeq(xs, 1, IF n < Len(xs) THEN n ELSE Len(xs))

(* What the rewriter may return for one request *)
RawTexts == {W_in, space_join(<<W_in, W_in>>), space_join(<<W_in, W_goa>>),
             space_join(<<W_in, W_Goa>>)}

(* The text after the spelling pass and its lock map *)
TopkContexts == {<<W_in, <<>>>>, <<space_join(<<W_in, W_Goa>>), (1 :> W_Goa)>>}

TopkInit ==
    /\ pc = "topk_loop"
    /\ raw \in PieceLists(RawTexts, MaxRaw)
    /\ topk \in 1..MaxTopK
    /\ \E c \in TopkContexts :
          /\ original_after_spell = c[1]
          /\ locked_positions = c[2]
    /\ raw_idx = 0
    /\ seen = {}
    /\ outs = <<>>
    /\ candidates = <<>>
    /\ guarded_all = <<>>
    /\ returned = <<>>
    /\ corrected = <<>>
    /\ src_tok = <<>>
    /\ tgt_tok = <<>>
    /\ i = 0
    /\ j = 0
    /\ out = <<>>
    /\ guarded = <<>>
    /\ final = <<>>
    /\ TokIdle
    /\ MatchIdle
    /\ SpellIdle
    /\ AcademicIdle
    /\ LoaderIdle

(* if cand not in seen: outs.append(cand); seen.add(cand) *)
TopkTake ==
    /\ pc = "topk_loop"
    /\ raw_idx < Len(raw)
    /\ raw[raw_idx + 1] \notin seen
    /\ outs' = Append(outs, raw[raw_idx + 1])
    /\ seen' = seen \cup {raw[raw_idx + 1]}
    /\ raw_idx' = raw_idx + 1
    /\ UNCHANGED <<pc, raw, topk, candidates, guarded_all, returned,
                   original_after_spell, locked_positions>>
    /\ UNCHANGED notTopkVars

TopkSkip ==
    /\ pc = "topk_loop"
    /\ raw_idx < Len(raw)
    /\ raw[raw_idx + 1] \in seen
    /\ raw_idx' = raw_idx + 1
    /\ UNCHANGED <<pc, raw, topk, seen, outs, candidates, guarded_all, returned,
                   original_after_spell, locked_positions>>
    /\ UNCHANGED notTopkVars

(* return outs[:k] *)
TopkReturn ==
    /\ pc = "topk_loop"
    /\ raw_idx = Len(raw)
    /\ candidates' = take(outs, topk)
    /\ pc' = "topk_done"
    /\ UNCHANGED <<raw, topk, raw_idx, seen, outs, guarded_all, returned,
                   original_after_spell, locked_positions>>
    /\ UNCHANGED notTopkVars

(* if k > 1: guarded = [enforce_locked_proper_nouns(spell_corrected, c, ..) *)
(* for c in candidates]                                                    *)
PipelineGuard ==
    /\ pc = "topk_done"
    /\ topk > 1
    /\ guarded_all' = [n \in DOMAIN candidates |->
           enforce_locked_proper_nouns(original_after_spell, candidates[n],
                                       locked_positions)]
    /\ pc' = "pipeline_guarded"
    /\ UNCHANGED <<raw, topk, raw_idx, seen, outs, candidates, returned,
                   original_after_spell, locked_positions>>
    /\ UNCHANGED notTopkVars

(* guarded = [_dedup_adjacent_words_simple(g) ..]; [_final_touchups(g) ..] *)
PipelineCleanup ==
    /\ pc = "pipeline_guarded"
    /\ returned' = [n \in DOMAIN guarded_all |->
           final_touchups(dedup_adjacent_words_simple(guarded_all[n]))]
    /\ pc' = "pipeline_done"
    /\ UNCHANGED <<raw, topk, raw_idx, seen, outs, candidates, guarded_all,
                   original_after_spell, locked_positions>>
    /\ UNCHANGED notTopkVars

TopkNext ==
    \/ TopkTake
    \/ TopkSkip
    \/ TopkReturn
    \/ PipelineGuard
    \/ PipelineCleanup

SpecTopk == TopkInit /\ [][TopkNext]_vars

----------------------------------------------------------------------------
(* Claims about the candidate list                                         *)

(* The strings of xs, each at its first occurrence only *)
first_occurrences(xs) ==
    LET keep == {n \in DOMAIN xs : \A m \in 1..(n - 1) : xs[m] # xs[n]}
        RECURSIVE pick(_)
        pick(n) == IF n > Len(xs) THEN <<>>
                   ELSE IF n \in keep THEN <<xs[n]>> \o pick(n + 1)
                   ELSE pick(n + 1)
    IN  pick(1)

all_distinct(xs) == \A a, b \in DOMAIN xs : a # b => xs[a] # xs[b]

(* correct_topk returns the distinct strings of raw in order of first      *)
(* occurrence, cut to at most k of them                                    *)
TopkDistinctPrefix ==
    pc \in {"topk_done", "pipeline_guarded", "pipeline_done"} =>
        candidates = take(first_occurrences(raw), topk)

(* C11: correct_topk returns the distinct strings of raw in order of first *)
(* occurrence, cut to at most k, with no string that is not in raw; and    *)
(* the candidate list run_pipeline returns has no two identical strings.   *)
CandidatesDeduplicated ==
    /\ TopkDistinctPrefix
    /\ pc = "pipeline_done" => all_distinct(returned)

----------------------------------------------------------------------------
(* The model loader GrammarCorrector._load_first_available                 *)

PUBLIC_MODELS == <<"vennify/t5-base-grammar-correction",
                   "prithivida/grammar_error_correcter_v1",
                   "oliverguhr/grammar-correction">>

(* A name the caller may give; "" stands for None *)
CustomModel == "custom/grammar-model"
GivenNames == {"", CustomModel, PUBLIC_MODELS[2]}
ModelNames == {PUBLIC_MODELS[n] : n \in DOMAIN PUBLIC_MODELS} \cup {CustomModel}

(* candidates = [self.model_name] if self.model_name else PUBLIC_MODELS *)
loader_candidates == IF given_name # "" THEN <<given_name>> ELSE PUBLIC_MODELS

(* __init__: the three attributes, then the loop; which loads succeed is   *)
(* up to the environment                                                   *)
LoaderInit ==
    /\ pc = "load_loop"
    /\ given_name \in GivenNames
    /\ tokenizer_ok \in SUBSET ModelNames
    /\ model_ok \in SUBSET ModelNames
    /\ model_name = given_name
    /\ tokenizer = ""
    /\ model = ""
    /\ try_idx = 0
    /\ last_err = ""
    /\ raised = FALSE
    /\ TokIdle
    /\ GuardIdle
    /\ MatchIdle
    /\ SpellIdle
    /\ AcademicIdle
    /\ TopkIdle

loader_trying == pc = "load_loop" /\ try_idx < Len(loader_candidates)
loader_name == loader_candidates[try_idx + 1]

(* A loader that keeps a tokenizer it already has *)
loaded_tokenizer_kept(name) == IF tokenizer # "" THEN tokenizer ELSE name

(* AutoTokenizer.from_pretrained(name), when it succeeds *)
loaded_tokenizer(name) == name

(* AutoTokenizer.from_pretrained raises: last_err = e, next candidate *)
LoadTokenizerFails ==
    /\ loader_trying
    /\ loader_name \notin tokenizer_ok
    /\ last_err' = loader_name
    /\ try_idx' = try_idx + 1
    /\ UNCHANGED <<pc, given_name, tokenizer_ok, model_ok, model_name, tokenizer,
                   model, raised>>
    /\ UNCHANGED notLoaderVars

(* The tokenizer is assigned, then AutoModelForSeq2SeqLM.from_pretrained   *)
(* raises                                                                  *)
LoadModelFails ==
    /\ loader_trying
    /\ loader_name \in tokenizer_ok
    /\ loader_name \notin model_ok
    /\ tokenizer' = loaded_tokenizer(loader_name)
    /\ last_err' = loader_name
    /\ try_idx' = try_idx + 1
    /\ UNCHANGED <<pc, given_name, tokenizer_ok, model_ok, model_name, model, raised>>
    /\ UNCHANGED notLoaderVars

(* Both loads succeed: the three attributes are set and the loop returns *)
LoadBoth ==
    /\ loader_trying
    /\ loader_name \in tokenizer_ok
    /\ loader_name \in model_ok
    /\ tokenizer' = loaded_tokenizer(loader_name)
    /\ model' = loader_name
    /\ model_name' = loader_name
    /\ pc' = "loaded"
    /\ UNCHANGED <<given_name, tokenizer_ok, model_ok, try_idx, last_err, raised>>
    /\ UNCHANGED notLoaderVars

(* raise RuntimeError(...) after the loop *)
LoadRaise ==
    /\ pc = "load_loop"
    /\ try_idx = Len(loader_candidates)
    /\ raised' = TRUE
    /\ pc' = "load_failed"
    /\ UNCHANGED <<given_name, tokenizer_ok, model_ok, model_name, tokenizer, model,
                   try_idx, last_err>>
    /\ UNCHANGED notLoaderVars

LoaderNext ==
    \/ LoadTokenizerFails
    \/ LoadModelFails
    \/ LoadBoth
    \/ LoadRaise

SpecLoader == LoaderInit /\ [][LoaderNext]_vars

----------------------------------------------------------------------------
(* Claims about the model loader                                           *)

(* The names to try: the given one alone, else the public list *)
NamesToTry == IF given_name = "" THEN PUBLIC_MODELS ELSE <<given_name>>
loads_both(name) == name \in tokenizer_ok /\ name \in model_ok
first_loadable(n) ==
    /\ n \in DOMAIN NamesToTry
    /\ loads_both(NamesToTry[n])
    /\ \A m \in 1..(n - 1) : ~loads_both(NamesToTry[m])

(* C12: the loader finishes with tokenizer, model and model_name all of    *)
(* the first name in list order (the given name alone when one is given)   *)
(* whose tokenizer and model both load; a model is never held together     *)
(* with the tokenizer of another name; and RuntimeError is raised exactly  *)
(* when no name loads both.                                                *)
LoadingFallback ==
    /\ model # "" => tokenizer = model /\ model_name = model
    /\ pc = "loaded" =>
          /\ ~raised
          /\ \E n \in DOMAIN NamesToTry :
                /\ first_loadable(n)
                /\ model = NamesToTry[n]
    /\ pc = "load_failed" =>
          /\ raised
          /\ model = ""
          /\ \A n \in DOMAIN NamesToTry : ~loads_both(NamesToTry[n])
    /\ raised => pc = "load_failed"

(* No name given; the tokenizer of the first public model loads but its    *)
(* model does not, and the loader ends on the third.                       *)
LoadingFallbackWitness ==
    /\ pc = "loaded"
    /\ given_name = ""
    /\ PUBLIC_MODELS[1] \in tokenizer_ok
    /\ PUBLIC_MODELS[1] \notin model_ok
    /\ model_name = PUBLIC_MODELS[3]
    /\ tokenizer = PUBLIC_MODELS[3]
    /\ model = PUBLIC_MODELS[3]

----------------------------------------------------------------------------
(* Claims about the pass without the lexicon                               *)

(* Texts the rewriter may return for the text of the spelling pass *)
Rewrites == {space_join(ps) : ps \in PieceLists(TgtPieces, 2)}

(* C13: with use_lexicon false the spelling pass returns an empty          *)
(* locked_positions and lexicon_hits = 0, alpha_tokens still counts the    *)
(* word tokens it examined, and enforce_locked_proper_nouns with that      *)
(* lock map returns every rewritten text unchanged.                        *)
LexiconDisabled ==
    (pc = "spell_done" /\ ~use_lexicon) =>
        /\ DOMAIN stats.locked_positions = {}
        /\ stats.lexicon_hits = 0
        /\ stats.alpha_tokens =
               Cardinality(word_positions(retok(normalize_tokens(text))))
        /\ \A c \in Rewrites :
               enforce_locked_proper_nouns(spell_corrected, c,
                                           stats.locked_positions) = c

(* "goa" and one more word, the lexicon off: two words counted, "goa"      *)
(* neither locked nor capitalized.                                         *)
LexiconDisabledWitness ==
    /\ pc = "spell_done"
    /\ ~use_lexicon
    /\ Len(InputTokens) = 2
    /\ InputTokens[1] = W_goa
    /\ stats.alpha_tokens = 2
    /\ stats.lexicon_hits = 0
    /\ DOMAIN stats.locked_positions = {}
    /\ CorrectedTokens[1] = W_goa

----------------------------------------------------------------------------
(* Claims about the walk of the guardrail                                  *)

min_len(a, b) == IF Len(a) < Len(b) THEN Len(a) ELSE Len(b)

(* The token the walk must emit for index p (from 0) of the target *)
walk_entry(p) ==
    IF /\ p \in locked_keys
       /\ p < Len(src_tok) /\ is_word(src_tok[p + 1])
       /\ is_word(tgt_tok[p + 1])
    THEN locked_positions[p]
    ELSE tgt_tok[p + 1]

(* C14: in the walk i and j are equal at every step, the walk ends after   *)
(* min(len(src_tok), len(tgt_tok)) steps, and the token list built before  *)
(* the duplicate removal has len(tgt_tok) entries, the one at p being the  *)
(* target token at p or, when p is a lock key with a word token at p in    *)
(* source and target, the canonical string; nothing else of the source is  *)
(* emitted and a lock at or beyond len(tgt_tok) produces nothing.          *)
WalkInvariant ==
    /\ pc = "walk" =>
          /\ i = j
          /\ i <= min_len(src_tok, tgt_tok)
          /\ Len(out) = j
          /\ \A p \in 0..(j - 1) : out[p + 1] = walk_entry(p)
    /\ (pc \in {"guard_done", "final"} /\ locked_keys # {}) =>
          /\ i = j
          /\ i = min_len(src_tok, tgt_tok)
          /\ Len(out) = Len(tgt_tok)
          /\ \A p \in 0..(Len(tgt_tok) - 1) : out[p + 1] = walk_entry(p)

(* "Goa Goa" locked at 0 and 1, rewritten as "goa": one step, the          *)
(* canonical at 0, and nothing for the lock at 1.                          *)
WalkInvariantWitness ==
    /\ pc = "guard_done"
    /\ src_tok = <<W_Goa, W_Goa>>
    /\ locked_keys = {0, 1}
    /\ tgt_tok = <<W_goa>>
    /\ i = 1
    /\ j = 1
    /\ out = <<W_Goa>>

----------------------------------------------------------------------------
(* Claims about the canonical spelling after the post-pass                 *)

(* The indices (from 0) at which the walk overwrote a target word *)
overwritten ==
    {p \in locked_keys :
        /\ p < Len(src_tok) /\ p < Len(tgt_tok)
        /\ is_word(src_tok[p + 1]) /\ is_word(tgt_tok[p + 1])}

(* The lock map as the spelling pass records it: every key is the index   *)
(* of a token of the locked text that is the canonical string itself       *)
LocksAsRecorded ==
    \A p \in locked_keys : p < Len(src_tok) /\ src_tok[p + 1] = locked_positions[p]

(* C15: for every index at which the walk overwrote a target word with a   *)
(* canonical string, the text the guardrail returns, after the join and    *)
(* the adjacent-duplicate removal, contains that canonical string in its  *)
(* exact casing.                                                           *)
CanonicalSurvives ==
    (pc = "guard_done" /\ LocksAsRecorded) =>
        \A p \in overwritten :
            contains(guarded, locked_positions[p])

----------------------------------------------------------------------------
(* normalize_tokens on its own                                             *)

NormPieces == {W_u, W_im, W_goa, <<"b", "4">>, <<"2", "d", "a", "y">>, <<"g", "r", "8">>, <<"4", "u">>, <<"t", "h", "i", "k", " ", "h">>}

NormInit ==
    /\ pc = "norm_start"
    /\ \E ps \in PieceLists(NormPieces, MaxWords) : text = space_join(ps)
    /\ tokens = <<>>
    /\ retoks = <<>>
    /\ joined = <<>>
    /\ rejoined = <<>>
    /\ GuardIdle
    /\ MatchIdle
    /\ SpellIdle
    /\ AcademicIdle
    /\ TopkIdle
    /\ LoaderIdle

(* norm = self.normalize_tokens(text) *)
NormalizeTokens ==
    /\ pc = "norm_start"
    /\ norm' = normalize_tokens(text)
    /\ pc' = "norm_done"
    /\ UNCHANGED <<text, use_lexicon, toks, idx, fixed, locked_map, hits,
                   alpha_tokens, spell_corrected, stats>>
    /\ UNCHANGED notSpellVars

NormNext == NormalizeTokens

SpecNorm == NormInit /\ [][NormNext]_vars

----------------------------------------------------------------------------
(* Claims about the abbreviation table                                     *)

(* The whitespace-delimited words of s *)
RECURSIVE split_words(_, _)
split_words(s, word) ==
    IF s = <<>> THEN (IF word = <<>> THEN <<>> ELSE <<word>>)
    ELSE IF IsSpace(s[1])
         THEN (IF word = <<>> THEN <<>> ELSE <<word>>) \o split_words(Tail(s), <<>>)
         ELSE split_words(Tail(s), Append(word, s[1]))

(* Every key of the table that stands as a word, or as two words for a key *)
(* with a space, replaced by its value                                     *)
RECURSIVE expand_words(_)
expand_words(ws) ==
    IF ws = <<>> THEN <<>>
    ELSE IF Len(ws) >= 2 /\ (ws[1] \o <<" ">> \o ws[2]) \in DOMAIN ABBREV
         THEN <<ABBREV[ws[1] \o <<" ">> \o ws[2]]>> \o expand_words(SubSeq(ws, 3, Len(ws)))
         ELSE <<abbrev_get(ws[1])>> \o expand_words(Tail(ws))

(* C16: normalize_tokens replaces every key of ABBREV that stands alone as *)
(* a whitespace-delimited word of the input by the key's table value, the  *)
(* keys with digits and the key with a space included.                     *)
AbbreviationCoverage ==
    pc = "norm_done" =>
        norm = space_join(expand_words(split_words(text, <<>>)))

====
